---- MODULE Spec2Model ----
\* The negotiation strategy engine (app/strategy_core.py, policy 1.2.0) and the
\* request schema it is called with (app/schemas.py).
\*
\* Prices are floats in the source.  Here a price is an integer count of HALF
\* units (21 stands for 10.5), so that whole and fractional prices both occur.
\* A product price * PERCENT is kept exactly, in hundredths of a half unit:
\* `user_offer >= mam * 0.95` is `user_offer * 100 >= mam * 95`.
EXTENDS Integers, Sequences, FiniteSets, TLC

VARIABLES
    mam,            \* the session's floor, sent with every request
    asking_price,   \* the session's listed price
    history,        \* the caller's conversation log, oldest turn first
    request,        \* the keyword arguments of the latest request
    call_arg,       \* the object make_decision was called with (or the
                    \* constructor's error, when it built none)
    decision,       \* what that call returned or raised
    pc,             \* "idle" while the caller awaits an offer, "decided" after a call
    frames,         \* per worker thread, the make_decision call it is running:
                    \* the input object, the line reached, the local
                    \* counter_offer and the outcome
    previous        \* an observer's note of one finished call: its input and
                    \* its outcome (the program keeps no such record)

vars == <<mam, asking_price, history, request, call_arg, decision, pc, frames, previous>>

\* ------------------------------------------------------------------ bounds
MaxPrice == 42
MaxHistory == 2

\* ------------------------------------------------- policy configuration
POLICY_VERSION == "1.2.0"
LOWBALL_THRESHOLD_PERCENT == 70
SENTIMENT_ACCEPT_THRESHOLD_PERCENT == 95
COUNTER_JUMP_WEIGHT == 75

\* ------------------------------------------------------------ input sets
\* Offers around zero (for a floor of zero or below) and around the floors
\* near MaxPrice, from under the lowball threshold to above the asking price.
Offers == ((0 - 6)..1) \cup ((MaxPrice - 16)..MaxPrice)
Mams == {0 - 4, 0, MaxPrice - 3, MaxPrice - 2, MaxPrice - 1}
AskingPrices == {MaxPrice - 4, MaxPrice - 2, MaxPrice}
Sentiments == {"negative", "neutral", "positive"}
Intents == {"MAKE_OFFER", "ASK_QUESTION"}
SessionIds == {"sess_a", "sess_b"}

\* A history turn is a dict: the role, and the price key the turn carries.
UserTurn(p) == [role |-> "user", offer |-> p]
UserMessage == [role |-> "user"]
AssistantTurn(p) == [role |-> "assistant", counter_price |-> p]

\* Histories a session may start from, as the tests seed them: none; a lone
\* engine quote; a user message answered by an engine quote; four rounds of
\* user message and falling engine quote.  Every quote is below the asking
\* price.
InitialHistories(asking) ==
    { <<>>,
      << AssistantTurn(asking - 1) >>,
      << UserMessage, AssistantTurn(asking - 2) >>,
      << UserMessage, AssistantTurn(asking - 1), UserMessage, AssistantTurn(asking - 2),
         UserMessage, AssistantTurn(asking - 3), UserMessage, AssistantTurn(asking - 4) >> }

\* ---------------------------------------------------------------- schema
\* The fields StrategyInput declares.
StrategyInputFields == {"mam", "asking_price", "user_offer", "session_id", "history"}

\* The fields declared with Field(...): a keyword must be given for each.
RequiredFields == {"mam", "asking_price", "user_offer", "session_id"}

\* A call either returns a StrategyOutput or raises.
Raise(exc) == [raised |-> exc]

\* StrategyInput(**kwargs): a required keyword that is missing raises
\* ValidationError.  Otherwise the object has exactly the declared fields:
\* history defaults to the empty list, and a keyword the class does not
\* declare is ignored (Config sets no `extra`).  A price keyword here always
\* holds a number, so the conversion to float changes nothing; None and
\* strings, which the constructor refuses or converts, are not among the
\* values a keyword takes.
StrategyInput(kwargs) ==
    IF ~(RequiredFields \subseteq DOMAIN kwargs)
    THEN Raise("ValidationError")
    ELSE [f \in StrategyInputFields |->
            IF f \in DOMAIN kwargs THEN kwargs[f] ELSE <<>>]

\* The attributes of input_data that make_decision reads.  session_id,
\* user_sentiment and user_intent are read by its two log lines and mam and
\* user_offer by rules 1 and 2, on every call; asking_price is read by the
\* second sanity check only, on the way to a counter.
FieldsReadByEveryCall ==
    {"session_id", "user_sentiment", "user_intent", "mam", "user_offer"}

FieldsRead == FieldsReadByEveryCall \cup {"asking_price"}

\* ---------------------------------------------------------------- output

StrategyOutput(action, response_key, counter_price, decision_metadata) ==
    [raised |-> "",
     action |-> action,
     response_key |-> response_key,
     counter_price |-> counter_price,
     policy_type |-> "rule-based",
     policy_version |-> POLICY_VERSION,
     decision_metadata |-> decision_metadata]

\* Optional[float]: None is the empty set, a price p is {p}.
None == {}
Some(p) == {p}

\* math.ceil of a price given in hundredths of a half unit, as a price in half
\* units: the least whole number of units not below it.
math_ceil(x) == 2 * (0 - ((0 - x) \div 200))

\* -------------------------------------------------------- make_decision
\* mam * 0.95 and mam * 0.70, in hundredths of a half unit.
sentiment_accept_threshold(input_data) ==
    input_data.mam * SENTIMENT_ACCEPT_THRESHOLD_PERCENT

lowball_threshold(input_data) ==
    input_data.mam * LOWBALL_THRESHOLD_PERCENT

\* The weighted jump: ceil(user_offer + (mam - user_offer) * 0.75).
weighted_jump(input_data) ==
    LET gap_to_mam == input_data.mam - input_data.user_offer
        jump_amount == gap_to_mam * COUNTER_JUMP_WEIGHT
    IN  math_ceil(input_data.user_offer * 100 + jump_amount)

\* A variant without the first sanity check: the computed counter is kept as
\* it is.
raise_to_mam_skipped(counter_offer, input_data) == counter_offer

\* First sanity check: a counter below the mam is raised to the mam.
raise_to_mam(counter_offer, input_data) ==
    IF counter_offer < input_data.mam THEN input_data.mam ELSE counter_offer

\* Second sanity check: a counter above the asking price is cut to it.
clamp_to_asking(counter_offer, input_data) ==
    IF counter_offer > input_data.asking_price
    THEN input_data.asking_price
    ELSE counter_offer

\* Rules 1 to 3, in the order the function tries them: the first that fires
\* returns.  None of them reads asking_price.
FellThrough == [raised |-> "no rule fired"]

EarlyRules(input_data) ==
    LET user_offer == input_data.user_offer
    IN  IF input_data.user_sentiment = "negative"
           /\ user_offer * 100 >= sentiment_accept_threshold(input_data)
        THEN StrategyOutput("ACCEPT", "ACCEPT_SENTIMENT_CLOSE", Some(user_offer),
                [rule |-> "sentiment_accept_on_negative",
                 mam |-> input_data.mam,
                 user_offer |-> user_offer,
                 sentiment |-> input_data.user_sentiment,
                 threshold_percent |-> SENTIMENT_ACCEPT_THRESHOLD_PERCENT,
                 threshold_value |-> sentiment_accept_threshold(input_data)])
        ELSE IF user_offer >= input_data.mam
        THEN StrategyOutput("ACCEPT", "ACCEPT_FINAL", Some(user_offer),
                [rule |-> "user_offer_gte_mam",
                 mam |-> input_data.mam,
                 user_offer |-> user_offer])
        ELSE IF user_offer * 100 < lowball_threshold(input_data)
        THEN StrategyOutput("REJECT", "REJECT_LOWBALL", None,
                [rule |-> "user_offer_lt_lowball_threshold",
                 mam |-> input_data.mam,
                 user_offer |-> user_offer,
                 threshold_percent |-> LOWBALL_THRESHOLD_PERCENT,
                 threshold_value |-> lowball_threshold(input_data)])
        ELSE FellThrough

\* Rule 4's return: the counter with the price the local counter_offer holds.
StandardCounter(input_data, counter_offer) ==
    StrategyOutput("COUNTER", "STANDARD_COUNTER", Some(counter_offer),
        [rule |-> "weighted_jump_counter",
         mam |-> input_data.mam,
         user_offer |-> input_data.user_offer,
         jump_weight |-> COUNTER_JUMP_WEIGHT,
         calculated_counter |-> counter_offer])

\* The four rules.  Rule 4 reads asking_price in its second sanity check, and
\* an object without it raises there.
RuleCascade(input_data) ==
    LET early == EarlyRules(input_data)
        counter_offer ==
            clamp_to_asking(raise_to_mam(weighted_jump(input_data), input_data),
                            input_data)
    IN  IF early # FellThrough
        THEN early
        ELSE IF "asking_price" \notin DOMAIN input_data
        THEN Raise("AttributeError")
        ELSE StandardCounter(input_data, counter_offer)

\* make_decision(input_data): the log lines read session_id, user_sentiment and
\* user_intent before any rule runs, and rules 1 and 2 read mam and user_offer;
\* an attribute the object lacks raises AttributeError where it is read.
\* Nothing but input_data and the module constants is read, and nothing is
\* written.
make_decision(input_data) ==
    IF ~(FieldsReadByEveryCall \subseteq DOMAIN input_data)
    THEN Raise("AttributeError")
    ELSE RuleCascade(input_data)

\* ----------------------------------------------------------------- state
NoRequest == [session_id |-> "none"]
NoCall == [input |-> NoRequest, decision |-> Raise("not called")]

\* The worker threads that may run make_decision at the same time.
Threads == {1, 2}

\* A thread that runs no call.
IdleFrame ==
    [pc |-> "idle", input |-> NoRequest, counter_offer |-> None,
     result |-> Raise("not called")]

Init ==
    /\ mam \in Mams
    /\ asking_price \in AskingPrices
    /\ history \in InitialHistories(asking_price)
    /\ request = NoRequest
    /\ call_arg = NoRequest
    /\ decision = Raise("not called")
    /\ pc = "idle"
    /\ frames = [t \in Threads |-> IdleFrame]
    /\ previous = NoCall

\* The caller's keyword arguments for one offer.
Request(offer, sentiment, intent, sid) ==
    [mam |-> mam,
     asking_price |-> asking_price,
     user_offer |-> offer,
     user_intent |-> intent,
     user_sentiment |-> sentiment,
     session_id |-> sid,
     history |-> history]

\* A call through the schema, as the tests' fixture builds its input:
\* make_decision(StrategyInput(**kwargs)).  Were the constructor to raise,
\* its error would be the outcome and make_decision would not run.
DecideValidated ==
    \E offer \in Offers, sentiment \in Sentiments, intent \in Intents, sid \in SessionIds :
        /\ pc = "idle"
        /\ request' = Request(offer, sentiment, intent, sid)
        /\ call_arg' = StrategyInput(request')
        /\ decision' = IF "raised" \in DOMAIN call_arg'
                       THEN call_arg'
                       ELSE make_decision(call_arg')
        /\ pc' = "decided"
        /\ UNCHANGED <<mam, asking_price, history, frames, previous>>

\* A call with an object that carries every attribute make_decision reads (the
\* parameter's annotation is not enforced when the function is called).
DecideUnvalidated ==
    \E offer \in Offers, sentiment \in Sentiments, intent \in Intents, sid \in SessionIds :
        /\ pc = "idle"
        /\ request' = Request(offer, sentiment, intent, sid)
        /\ call_arg' = request'
        /\ decision' = make_decision(call_arg')
        /\ pc' = "decided"
        /\ UNCHANGED <<mam, asking_price, history, frames, previous>>

\* The caller's bookkeeping after a counter: it logs the user's offer and the
\* engine's counter, and the next request carries the longer history.
AppendTurns ==
    /\ pc = "decided"
    /\ decision.raised = ""
    /\ decision.action = "COUNTER"
    /\ Len(history) + 2 <= MaxHistory
    /\ history' = history \o << UserTurn(request.user_offer) >>
                          \o << AssistantTurn(CHOOSE p \in decision.counter_price : TRUE) >>
    /\ pc' = "idle"
    /\ UNCHANGED <<mam, asking_price, request, call_arg, decision, frames, previous>>

Next == DecideValidated \/ DecideUnvalidated \/ AppendTurns

Spec == Init /\ [][Next]_vars

\* ---------------------------------------------- calls running side by side
\* make_decision is a plain function of a service that serves requests on
\* worker threads: several calls, for the same or for different sessions, can
\* be inside the function at once.  A call is run here statement by statement;
\* its frame holds what the function keeps between statements.

\* Three sessions as they reach the engine: a first offer, the same session
\* one round later, and another session two rounds in, with its asking price
\* under its floor.
Listings ==
    { [session_id |-> "sess_a", mam |-> MaxPrice - 2, asking_price |-> MaxPrice,
       history |-> <<>>],
      [session_id |-> "sess_a", mam |-> MaxPrice - 2, asking_price |-> MaxPrice,
       history |-> << UserMessage, AssistantTurn(MaxPrice - 2) >>],
      [session_id |-> "sess_b", mam |-> MaxPrice - 1, asking_price |-> MaxPrice - 2,
       history |-> << UserMessage, AssistantTurn(MaxPrice - 3),
                      UserMessage, AssistantTurn(MaxPrice - 4) >>] }

\* An offer under the lowball threshold, one between threshold and floor, and
\* one above the floor.
ListingOffers == {MaxPrice - 16, MaxPrice - 8, MaxPrice}

ListingSentiments == {"negative", "neutral"}

\* The keyword arguments of a request for a listing.
ListingRequest(l, offer, sentiment) ==
    [mam |-> l.mam,
     asking_price |-> l.asking_price,
     user_offer |-> offer,
     user_intent |-> "MAKE_OFFER",
     user_sentiment |-> sentiment,
     session_id |-> l.session_id,
     history |-> l.history]

ListingRequests ==
    { ListingRequest(l, offer, sentiment) :
        l \in Listings, offer \in ListingOffers, sentiment \in ListingSentiments }

\* The objects make_decision is called with: the keyword arguments as an
\* attribute-carrying object, or the StrategyInput built from them.
CallInputs == ListingRequests \cup { StrategyInput(k) : k \in ListingRequests }

\* The value an Optional holds.
Value(opt) == CHOOSE p \in opt : TRUE

\* A variant in which counter_offer is a module-level name instead of a local
\* one: an assignment by one call is seen by every call.
assign_counter_offer_global(frs, t, v) ==
    [u \in Threads |-> [frs[u] EXCEPT !.counter_offer = Some(v)]]

\* counter_offer = v inside the call of thread t: the name is local to the
\* call.
assign_counter_offer(frs, t, v) ==
    [frs EXCEPT ![t].counter_offer = Some(v)]

\* The call returns or raises.
Finish(frs, t, outcome) ==
    [frs EXCEPT ![t].pc = "done", ![t].result = outcome]

GoTo(frs, t, label) == [frs EXCEPT ![t].pc = label]

SingleCallerIdle ==
    UNCHANGED <<mam, asking_price, history, request, call_arg, decision, pc>>

\* A free thread enters make_decision with a new local scope.
Call ==
    \E t \in Threads, input_data \in CallInputs :
        /\ frames[t].pc \in {"idle", "done"}
        /\ frames' = [frames EXCEPT ![t] =
                        [pc |-> "log", input |-> input_data,
                         counter_offer |-> None, result |-> Raise("running")]]
        /\ SingleCallerIdle
        /\ UNCHANGED previous

\* The two log lines: they read session_id, user_sentiment and user_intent.
LoggedFields == {"session_id", "user_sentiment", "user_intent"}

Log ==
    \E t \in Threads :
        /\ frames[t].pc = "log"
        /\ frames' = IF LoggedFields \subseteq DOMAIN frames[t].input
                     THEN GoTo(frames, t, "rules")
                     ELSE Finish(frames, t, Raise("AttributeError"))
        /\ SingleCallerIdle
        /\ UNCHANGED previous

\* Rules 1 to 3: the first that fires returns.
Rules ==
    \E t \in Threads :
        /\ frames[t].pc = "rules"
        /\ frames' = IF ~({"mam", "user_offer"} \subseteq DOMAIN frames[t].input)
                     THEN Finish(frames, t, Raise("AttributeError"))
                     ELSE IF EarlyRules(frames[t].input) # FellThrough
                     THEN Finish(frames, t, EarlyRules(frames[t].input))
                     ELSE GoTo(frames, t, "jump")
        /\ SingleCallerIdle
        /\ UNCHANGED previous

\* counter_offer = math.ceil(user_offer + jump_amount)
Jump ==
    \E t \in Threads :
        /\ frames[t].pc = "jump"
        /\ frames' = GoTo(assign_counter_offer(frames, t, weighted_jump(frames[t].input)),
                          t, "raise")
        /\ SingleCallerIdle
        /\ UNCHANGED previous

\* First sanity check, on the counter_offer the call sees.
RaiseToMam ==
    \E t \in Threads :
        /\ frames[t].pc = "raise"
        /\ frames' = GoTo(assign_counter_offer(frames, t,
                              raise_to_mam(Value(frames[t].counter_offer), frames[t].input)),
                          t, "clamp")
        /\ SingleCallerIdle
        /\ UNCHANGED previous

\* Second sanity check: the first read of asking_price.
ClampToAsking ==
    \E t \in Threads :
        /\ frames[t].pc = "clamp"
        /\ frames' = IF "asking_price" \notin DOMAIN frames[t].input
                     THEN Finish(frames, t, Raise("AttributeError"))
                     ELSE GoTo(assign_counter_offer(frames, t,
                                   clamp_to_asking(Value(frames[t].counter_offer),
                                                   frames[t].input)),
                               t, "return")
        /\ SingleCallerIdle
        /\ UNCHANGED previous

\* return StrategyOutput(action="COUNTER", ...)
Return ==
    \E t \in Threads :
        /\ frames[t].pc = "return"
        /\ frames' = Finish(frames, t,
                        StandardCounter(frames[t].input, Value(frames[t].counter_offer)))
        /\ SingleCallerIdle
        /\ UNCHANGED previous

\* The observer notes a finished call, to hold it against the calls that
\* finish later.
Note ==
    \E t \in Threads :
        /\ frames[t].pc = "done"
        /\ previous' = [input |-> frames[t].input, decision |-> frames[t].result]
        /\ previous' # previous
        /\ SingleCallerIdle
        /\ UNCHANGED frames

\* The threads start free; the single caller of Spec makes no call here.
InitConcurrent ==
    /\ Init
    /\ mam = MaxPrice - 2
    /\ asking_price = MaxPrice
    /\ history = <<>>

NextConcurrent ==
    Call \/ Log \/ Rules \/ Jump \/ RaiseToMam \/ ClampToAsking \/ Return \/ Note

SpecConcurrent == InitConcurrent /\ [][NextConcurrent]_vars

\* ------------------------------------------- what the claims speak about
\* The history scanner the specification describes: the price of the most
\* recent engine-side turn that carries one (else the listed price), and the
\* number of user turns.
EngineRoles == {"assistant", "bot"}

RECURSIVE LastEnginePrice(_, _)
LastEnginePrice(h, listed) ==
    IF h = <<>>
    THEN listed
    ELSE LET t == h[Len(h)]
         IN  IF t.role \in EngineRoles /\ "counter_price" \in DOMAIN t
             THEN t.counter_price
             ELSE LastEnginePrice(SubSeq(h, 1, Len(h) - 1), listed)

UserTurnCount(h) == Cardinality({i \in 1..Len(h) : h[i].role = "user"})

\* The tests' fatigue rule: the final round starts when the user's offers,
\* the current one included, number more than four.
FINAL_ROUND_AFTER == 4

Returned == pc = "decided" /\ decision.raised = ""
Countered == Returned /\ decision.action = "COUNTER"
CounterPrice == CHOOSE p \in decision.counter_price : TRUE
SentimentRelief ==
    /\ request.user_sentiment = "negative"
    /\ request.user_offer * 100 >= request.mam * SENTIMENT_ACCEPT_THRESHOLD_PERCENT

\* ---------------------------------------------------------------- claims
\* C1: floor invariant. Every call whose request has user_offer >= mam returns
\* ACCEPT with counter_price equal to user_offer, whatever the sentiment,
\* intent, asking price or history.
C1_FloorAccept ==
    (pc = "decided" /\ request.user_offer >= request.mam)
        => /\ decision.raised = ""
           /\ decision.action = "ACCEPT"
           /\ decision.counter_price = Some(request.user_offer)

\* The same statement for the calls whose object carries every attribute read.
C1_FloorAcceptOnAttributes ==
    (pc = "decided" /\ call_arg = request /\ request.user_offer >= request.mam)
        => /\ decision.raised = ""
           /\ decision.action = "ACCEPT"
           /\ decision.counter_price = Some(request.user_offer)

\* C2: counter floor invariant. Every returned COUNTER quotes a counter_price
\* of at least the mam, after both clamps and for every relation between the
\* asking price and the mam.
C2_CounterAtLeastMam ==
    Countered => CounterPrice >= request.mam

\* C3: ratchet invariant. Every returned COUNTER quotes a counter_price no
\* higher than the last engine price of the request's history (the asking
\* price when the history holds no engine price).
C3_Ratchet ==
    Countered => CounterPrice <= LastEnginePrice(request.history, request.asking_price)

\* C4: lowball invariant. Every call whose request has user_offer < mam * 0.70
\* and on which the sentiment-relief rule does not fire returns REJECT with
\* response_key REJECT_LOWBALL and no counter_price.
C4_LowballReject ==
    (/\ pc = "decided"
     /\ request.user_offer * 100 < request.mam * LOWBALL_THRESHOLD_PERCENT
     /\ ~SentimentRelief)
        => /\ decision.raised = ""
           /\ decision.action = "REJECT"
           /\ decision.response_key = "REJECT_LOWBALL"
           /\ decision.counter_price = None

\* The same statement for the calls whose object carries every attribute read
\* and whose mam is not negative.
C4_LowballRejectOnAttributes ==
    (/\ pc = "decided"
     /\ call_arg = request
     /\ request.mam >= 0
     /\ request.user_offer * 100 < request.mam * LOWBALL_THRESHOLD_PERCENT
     /\ ~SentimentRelief)
        => /\ decision.raised = ""
           /\ decision.action = "REJECT"
           /\ decision.response_key = "REJECT_LOWBALL"
           /\ decision.counter_price = None

\* C5: sentiment relief comes first. A request with negative sentiment and
\* user_offer >= mam * 0.95 is answered ACCEPT, counter_price = user_offer,
\* response_key ACCEPT_SENTIMENT_CLOSE, also below the mam; with any other
\* sentiment an offer in [0.95 * mam, mam) is not accepted.
C5_SentimentReliefFirst ==
    pc = "decided" =>
        /\ SentimentRelief =>
              /\ decision.raised = ""
              /\ decision.action = "ACCEPT"
              /\ decision.response_key = "ACCEPT_SENTIMENT_CLOSE"
              /\ decision.counter_price = Some(request.user_offer)
        /\ (/\ request.user_sentiment # "negative"
            /\ request.user_offer * 100 >= request.mam * SENTIMENT_ACCEPT_THRESHOLD_PERCENT
            /\ request.user_offer < request.mam)
              => ~(decision.raised = "" /\ decision.action = "ACCEPT")

\* The same statement for the calls whose object carries every attribute read.
C5_SentimentReliefFirstOnAttributes ==
    (pc = "decided" /\ call_arg = request) => C5_SentimentReliefFirst

\* C6: history-aware counter. In a non-final round every returned COUNTER
\* quotes min(anchor, max(mam, roundup(anchor - (anchor - user_offer) * 0.5)))
\* with anchor the last engine price of the request's history.
C6_CounterFromAnchor ==
    (Countered /\ UserTurnCount(request.history) + 1 <= FINAL_ROUND_AFTER)
        => LET anchor == LastEnginePrice(request.history, request.asking_price)
               gap == anchor - request.user_offer
               raw == math_ceil(anchor * 100 - gap * 50)
               floored == IF raw < request.mam THEN request.mam ELSE raw
           IN  CounterPrice = IF floored > anchor THEN anchor ELSE floored

\* C7: fatigue threshold. A returned COUNTER carries response_key
\* COUNTER_FINAL_OFFER and decision_metadata.is_final_round = TRUE when the
\* user turns of the history plus the current offer pass the threshold, and
\* STANDARD_COUNTER below it.
C7_FinalOfferAtThreshold ==
    Countered =>
        IF UserTurnCount(request.history) + 1 > FINAL_ROUND_AFTER
        THEN /\ decision.response_key = "COUNTER_FINAL_OFFER"
             /\ "is_final_round" \in DOMAIN decision.decision_metadata
             /\ decision.decision_metadata.is_final_round = TRUE
        ELSE decision.response_key = "STANDARD_COUNTER"

\* C8: totality. Every call returns (raises nothing) a StrategyOutput whose
\* action is ACCEPT, REJECT or COUNTER, and every attribute make_decision
\* reads is a field StrategyInput declares.
C8_Total ==
    pc = "decided" =>
        /\ FieldsRead \subseteq StrategyInputFields
        /\ decision.raised = ""
        /\ decision.action \in {"ACCEPT", "REJECT", "COUNTER"}

\* The finished calls in sight: the one each thread last finished and the one
\* the observer noted, which may lie any number of calls back.
FinishedCalls ==
    { [input |-> frames[t].input, decision |-> frames[t].result] :
        t \in {u \in Threads : frames[u].pc = "done"} }
    \cup (IF previous = NoCall THEN {} ELSE {previous})

\* A step inside make_decision by thread t.
StepOf(t) == frames[t].pc \notin {"idle", "done"} /\ frames'[t] # frames[t]

\* The statement-by-statement run and the function taken as a whole agree on
\* every finished call.
StepwiseAgrees ==
    \A t \in Threads :
        frames[t].pc = "done" => frames[t].result = make_decision(frames[t].input)

\* C9: determinism and statelessness. However the calls of the threads are
\* interleaved and whatever calls came before, two finished calls with the
\* identical input (history included) have the identical outcome; and a step
\* of a call changes nothing another call holds or reads, and leaves its own
\* input, history included, as it was.
C9_SameInputSameDecision ==
    /\ [](\A c, d \in FinishedCalls : c.input = d.input => c.decision = d.decision)
    /\ [][\A t \in Threads :
            StepOf(t) => /\ frames'[t].input = frames[t].input
                         /\ \A u \in Threads \ {t} : frames'[u] = frames[u]
                         /\ previous' = previous]_vars

\* Two calls, one per thread, have returned a counter for the identical input
\* with a history, after a call for another session that the observer noted.
C9_RepeatedCounterCall ==
    /\ \A t \in Threads : /\ frames[t].pc = "done"
                          /\ frames[t].result.raised = ""
                          /\ frames[t].result.action = "COUNTER"
                          /\ frames[t].input.history # <<>>
    /\ \A t, u \in Threads : frames[t].input = frames[u].input
    /\ previous # NoCall
    /\ \A t \in Threads : previous.input.session_id # frames[t].input.session_id

\* C10: clamp reporting. When a returned COUNTER's price was changed by a
\* clamp (raised to the mam, or cut to the asking price), decision_metadata
\* records it: it holds an entry besides the rule name, the echoed inputs,
\* the jump weight and the final price, or another rule name.
Clamped(input_data) ==
    LET jumped == weighted_jump(input_data)
        floored == raise_to_mam(jumped, input_data)
    IN  floored # jumped \/ clamp_to_asking(floored, input_data) # floored

C10_ClampRecorded ==
    (Countered /\ Clamped(call_arg))
        => \/ decision.decision_metadata.rule # "weighted_jump_counter"
           \/ DOMAIN decision.decision_metadata
                # {"rule", "mam", "user_offer", "jump_weight", "calculated_counter"}

\* C11: floor secrecy of the output. No returned StrategyOutput carries the
\* mam: its decision_metadata, the one field that is a free mapping, has no
\* entry "mam" on any of the four rule branches.
C11_OutputWithoutMam ==
    Returned => "mam" \notin DOMAIN decision.decision_metadata

\* C12: the weighted-jump counter collapses to the floor. For whole-unit mam
\* and user_offer, on every returned COUNTER the ceiled jump does not exceed
\* the mam and counter_price = min(mam, asking_price), whatever the offer and
\* the history.
WholeUnits(p) == p % 2 = 0

C12_CounterIsFloorOrAsking ==
    (Countered /\ WholeUnits(request.mam) /\ WholeUnits(request.user_offer))
        => /\ weighted_jump(call_arg) <= request.mam
           /\ CounterPrice = IF request.mam <= request.asking_price
                             THEN request.mam
                             ELSE request.asking_price

\* A counter for whole-unit prices whose ceiled jump fell below the mam and
\* was raised to it, under an asking price above the mam.
C12_JumpRaisedToFloor ==
    /\ Countered
    /\ WholeUnits(request.mam) /\ WholeUnits(request.user_offer)
    /\ weighted_jump(call_arg) < request.mam
    /\ request.mam < request.asking_price
    /\ CounterPrice = request.mam

====
